---- MODULE Spec2Model ----
(***************************************************************************)
(* Model of acap-bbox-heatmap (src/src/main.rs): the message-bus callback  *)
(* that hands payloads to a capacity-1 channel, and the render loop that   *)
(* receives them, decodes a track record, samples its observations and     *)
(* draws the path through the bbox overlay calls.                          *)
(***************************************************************************)
EXTENDS Integers, Sequences, FiniteSets, TLC

VARIABLES
    queue,         \* contents of the sync_channel buffer (oldest first)
    droppable_tx,  \* "Some" while the callback owns the sender, "None" after
    rx_alive,      \* TRUE while main still owns the receiver rx
    last_send,     \* what the most recent callback invocation did with try_send
    attempts,      \* number of send attempts of the most recent callback invocation
    render_pc,     \* position of main between line 117 and line 171
    result,        \* "running", or how main returned
    cur,           \* the message most recently taken by rx.recv()
    it,            \* state of the step_by iterator over the observations
    pending,       \* index of the observation the next move_to/line_to draws
    calls,         \* overlay calls issued since the last rx.recv()
    clears,        \* number of try_clear calls issued so far
    s_len,         \* sampler study: number of observations
    s_it,          \* sampler study: state of the step_by iterator
    s_out,         \* sampler study: indices yielded so far
    s_done,        \* sampler study: the iterator has returned None
    r_it,          \* second pass over s_out: state of its step_by iterator
    r_out,         \* second pass: elements of s_out yielded so far
    r_done         \* second pass: the iterator has returned None

vars == <<queue, droppable_tx, rx_alive, last_send, attempts, render_pc, result,
          cur, it, pending, calls, clears, s_len, s_it, s_out, s_done,
          r_it, r_out, r_done>>

bridge_vars == <<queue, droppable_tx, rx_alive, last_send, attempts>>
render_vars == <<render_pc, result, cur, it, pending, calls, clears>>
sampler_vars == <<s_len, s_it, s_out, s_done, r_it, r_out, r_done>>

-----------------------------------------------------------------------------
(* Bounds of the model.                                                    *)

\* Observation counts 0..MaxSmallLen are delivered, besides the long tracks.
MaxSmallLen == 2
\* The sampler study covers every observation count 0..MaxLen.
MaxLen == 400
\* The drawing study covers records of 1..MaxClasses classifications.
MaxClasses == 3

-----------------------------------------------------------------------------
(* Program constants.                                                      *)

SENSITIVITY == 190
\* sync_channel(1)
CHANNEL_BOUND == 1
\* bbox.try_commit(0)
COMMIT_ARG == 0

ClassType == {"Bike", "Bus", "Car", "Human", "Truck", "Vehicle"}

Max(a, b) == IF a >= b THEN a ELSE b

-----------------------------------------------------------------------------
(* Payloads the bus delivers.  A payload is either a byte string that is   *)
(* not UTF-8, or a text: not JSON at all, or a JSON object with the fields *)
(* of Data.  "classes" is Absent when the field is missing, else the       *)
(* sequence of the "type" strings; "end_time" is "null" or a time; the     *)
(* object carries nobs observations.                                       *)

ObsLens == (0 .. MaxSmallLen) \cup {SENSITIVITY + 1}

Absent == [present |-> FALSE, types |-> <<>>]

Present(types) == [present |-> TRUE, types |-> types]

ClassFields == {Absent, Present(<<>>), Present(<<"Car">>), Present(<<"Human", "Car">>)}

BadBytes == [utf8 |-> FALSE]

Text(doc) == [utf8 |-> TRUE, doc |-> doc]

MalformedDoc == [kind |-> "malformed"]

ObjectDoc(c, e, n) == [kind |-> "object", classes |-> c, end_time |-> e, nobs |-> n]

Payloads ==
    {BadBytes, Text(MalformedDoc), Text(ObjectDoc(Present(<<"Boat">>), "t1", 1))}
    \cup {Text(ObjectDoc(c, e, n)) : c \in ClassFields, e \in {"null", "t1"}, n \in ObsLens}

\* String::from_utf8(message.payload().to_vec())
from_utf8(bytes) ==
    IF bytes.utf8 THEN [ok |-> TRUE, text |-> bytes.doc] ELSE [ok |-> FALSE]

\* The i-th observation (0-based) of a track: boxes of even width drifting right.
bounding_box(i) ==
    [top |-> 0, left |-> 3 * i, right |-> 3 * i + 2 * (i % 3), bottom |-> 10 + (i % 4)]

\* BoundingBox::ground_intersection; widths are even, so the halving is exact.
ground_intersection(b) ==
    [x |-> b.left + (b.right - b.left) \div 2, y |-> b.bottom]

\* from_str whose default for a missing "classes" is one unclassified Vehicle.
from_str_default_class(doc) ==
    IF doc.kind = "malformed" THEN [ok |-> FALSE]
    ELSE IF \E k \in DOMAIN doc.classes.types : doc.classes.types[k] \notin ClassType
         THEN [ok |-> FALSE]
    ELSE [ok |-> TRUE,
          classes |-> IF doc.classes.present THEN doc.classes.types ELSE <<"Vehicle">>,
          end_time |-> IF doc.end_time = "null" THEN "None" ELSE "Some",
          len |-> doc.nobs]

\* serde_json::from_str::<Data>: Err for a malformed text or an unknown class
\* type, else the record; a missing "classes" defaults to Vec::new().
from_str(doc) ==
    IF doc.kind = "malformed" THEN [ok |-> FALSE]
    ELSE IF \E k \in DOMAIN doc.classes.types : doc.classes.types[k] \notin ClassType
         THEN [ok |-> FALSE]
    ELSE [ok |-> TRUE,
          classes |-> IF doc.classes.present THEN doc.classes.types ELSE <<>>,
          end_time |-> IF doc.end_time = "null" THEN "None" ELSE "Some",
          len |-> doc.nobs]

-----------------------------------------------------------------------------
(* The trajectory sampler.                                                 *)

\* (observations.len() as f64 / SENSITIVITY).ceil(): the quotient of an integer
\* below 2^53 by 190 is an integer exactly when 190 divides it, and is never
\* rounded onto one otherwise, so the f64 ceiling is the integer ceiling.
ceil_div(n, d) == (n \div d) + (IF n % d = 0 THEN 0 ELSE 1)

\* step_of with the quotient truncated instead of rounded up.
step_of_floor(len) == Max(len \div SENSITIVITY, 1)

\* step_of with the quotient rounded to the nearest integer instead of up.
step_of_round(len) == Max((2 * len + SENSITIVITY) \div (2 * SENSITIVITY), 1)

\* let step = (observations.len() as f64 / SENSITIVITY).ceil().max(1.0) as usize
step_of(len) == Max(ceil_div(len, SENSITIVITY), 1)

\* step_by that keeps step where StepBy keeps step - 1.
step_by_keep_step(step) == [consumed |-> 0, first_take |-> TRUE, step_minus_one |-> step]

\* observations.into_iter().step_by(step): StepBy keeps step - 1 and first_take;
\* consumed counts the elements of the underlying iterator already taken.
step_by(step) == [consumed |-> 0, first_take |-> TRUE, step_minus_one |-> step - 1]

\* Iterator::nth(n) of the underlying vec::IntoIter with len elements: skip n,
\* yield the next; -1 stands for None.
iter_nth(consumed, len, n) ==
    IF consumed + n < len
    THEN [yield |-> consumed + n, consumed |-> consumed + n + 1]
    ELSE [yield |-> -1, consumed |-> len]

\* StepBy::next that skips step elements, not step - 1, between two yields.
step_by_next_skip_step(s, len) ==
    LET n == IF s.first_take THEN 0 ELSE s.step_minus_one + 1
        r == iter_nth(s.consumed, len, n)
    IN  [yield |-> r.yield,
         iter |-> [consumed |-> r.consumed, first_take |-> FALSE,
                   step_minus_one |-> s.step_minus_one]]

\* StepBy::next
step_by_next(s, len) ==
    LET n == IF s.first_take THEN 0 ELSE s.step_minus_one
        r == iter_nth(s.consumed, len, n)
    IN  [yield |-> r.yield,
         iter |-> [consumed |-> r.consumed, first_take |-> FALSE,
                   step_minus_one |-> s.step_minus_one]]

-----------------------------------------------------------------------------
(* The hand-off channel.                                                   *)

\* try_send on a channel that makes room by discarding the buffered message.
try_send_drop_oldest(q, alive, v) ==
    IF ~alive THEN [res |-> "Disconnected", queue |-> q]
    ELSE IF Len(q) >= CHANNEL_BOUND THEN [res |-> "Full", queue |-> Append(Tail(q), v)]
    ELSE [res |-> "Ok", queue |-> Append(q, v)]

\* SyncSender::try_send on the bounded channel
try_send(q, alive, v) ==
    IF ~alive THEN [res |-> "Disconnected", queue |-> q]
    ELSE IF Len(q) >= CHANNEL_BOUND THEN [res |-> "Full", queue |-> q]
    ELSE [res |-> "Ok", queue |-> Append(q, v)]

\* Callback with the blocking send in place of try_send: it waits for room.
CallbackBlockingSend(message) ==
    LET payload == from_utf8(message) IN
    /\ IF droppable_tx = "None"
       THEN /\ last_send' = "NoAttempt"
            /\ attempts' = 0
            /\ UNCHANGED <<queue, droppable_tx>>
       ELSE /\ ~rx_alive \/ Len(queue) < CHANNEL_BOUND
            /\ LET r == try_send(queue, rx_alive, payload) IN
               /\ queue' = r.queue
               /\ last_send' = r.res
               /\ attempts' = 1
               /\ droppable_tx' = IF r.res # "Ok" THEN "None" ELSE "Some"
    /\ UNCHANGED <<rx_alive, render_vars, sampler_vars>>

\* Callback that never consults droppable_tx before sending.
CallbackNoLatch(message) ==
    LET payload == from_utf8(message)
        r == try_send(queue, rx_alive, payload)
    IN
    /\ queue' = r.queue
    /\ last_send' = r.res
    /\ attempts' = 1
    /\ droppable_tx' = IF r.res # "Ok" THEN "None" ELSE droppable_tx
    /\ UNCHANGED <<rx_alive, render_vars, sampler_vars>>

\* The subscriber callback, one invocation for one delivered message.
Callback(message) ==
    LET payload == from_utf8(message) IN
    /\ IF droppable_tx = "None"
       THEN /\ last_send' = "NoAttempt"
            /\ attempts' = 0
            /\ UNCHANGED <<queue, droppable_tx>>
       ELSE LET r == try_send(queue, rx_alive, payload) IN
            /\ queue' = r.queue
            /\ last_send' = r.res
            /\ attempts' = 1
            /\ droppable_tx' = IF r.res # "Ok" THEN "None" ELSE "Some"
    /\ UNCHANGED <<rx_alive, render_vars, sampler_vars>>

Deliver == \E message \in Payloads : Callback(message)

-----------------------------------------------------------------------------
(* The overlay calls and the render loop.                                  *)

NoMsg == [ok |-> FALSE, none |-> TRUE]

gold == <<255, 215, 0>>
orange == <<255, 140, 0>>
blue == <<0, 0, 255>>
green == <<50, 205, 50>>
red == <<139, 0, 0>>
gray == <<128, 128, 128>>

color_of(class_type) ==
    CASE class_type = "Bike" -> gold
      [] class_type = "Bus" -> orange
      [] class_type = "Car" -> blue
      [] class_type = "Human" -> green
      [] class_type = "Truck" -> red
      [] class_type = "Vehicle" -> gray

\* classes.last() in place of classes.first()
last_class(classes) == classes[Len(classes)]

\* classes.first(), on the non-empty sequence the let-else lets through
first_class(classes) == Head(classes)

Call(op, args, ok) == [op |-> op, args |-> args, ok |-> ok]

\* main returns: its locals, rx among them, are dropped and the buffered
\* messages with them.
Return(how) ==
    /\ render_pc' = "returned"
    /\ result' = how
    /\ rx_alive' = FALSE
    /\ queue' = <<>>

\* The record the loop is drawing.
Record == from_str(cur.text)

\* Advance that goes on to the path call without looking at what next() returned.
AdvanceUnchecked(s, len, more_pc) ==
    LET n == step_by_next(s, len) IN
    /\ it' = n.iter
    /\ pending' = n.yield
    /\ render_pc' = more_pc

\* Where the loop goes after a call that yielded the next sampled observation
\* (or none) from the iterator.
Advance(s, len, more_pc) ==
    LET n == step_by_next(s, len) IN
    /\ it' = n.iter
    /\ pending' = n.yield
    /\ render_pc' = IF n.yield = -1 THEN "draw_path" ELSE more_pc

\* bbox.try_clear()?
Clear ==
    /\ render_pc = "clear"
    /\ clears' = clears + 1
    /\ \/ /\ render_pc' = "recv"
          /\ UNCHANGED <<result, rx_alive, queue>>
       \/ Return("Err_bbox")
    /\ UNCHANGED <<droppable_tx, last_send, attempts, cur, it, pending, calls, sampler_vars>>

\* disposition with the parse error propagated by ? instead of skipped.
disposition_parse_fatal(msg) ==
    IF ~msg.ok THEN "fatal"
    ELSE LET d == from_str(msg.text) IN
         IF ~d.ok THEN "fatal"
         ELSE IF d.end_time = "None" THEN "skip"
         ELSE IF d.classes = <<>> THEN "skip"
         ELSE "draw"

\* disposition without the completion gate.
disposition_no_end_gate(msg) ==
    IF ~msg.ok THEN "fatal"
    ELSE LET d == from_str(msg.text) IN
         IF ~d.ok THEN "skip"
         ELSE IF d.classes = <<>> THEN "skip"
         ELSE "draw"

\* What the loop body does with a received message before any overlay call:
\* "fatal" for msg?, "skip" for each continue, "draw" when it goes on to try_color.
disposition(msg) ==
    IF ~msg.ok THEN "fatal"
    ELSE LET d == from_str(msg.text) IN
         IF ~d.ok THEN "skip"
         ELSE IF d.end_time = "None" THEN "skip"
         ELSE IF d.classes = <<>> THEN "skip"
         ELSE "draw"

\* rx.recv() yields a message; the loop body runs up to its first overlay call.
Recv ==
    /\ render_pc = "recv"
    /\ queue # <<>>
    /\ LET msg == Head(queue)
           todo == disposition(msg)
       IN
       /\ cur' = msg
       /\ calls' = <<>>
       /\ IF todo = "fatal"
          THEN Return("Err_utf8")
          ELSE /\ queue' = Tail(queue)
               /\ UNCHANGED <<result, rx_alive>>
               /\ render_pc' = IF todo = "skip" THEN "recv" ELSE "color"
    /\ UNCHANGED <<droppable_tx, last_send, attempts, it, pending, clears, sampler_vars>>

\* RecvClosed that sees the dropped sender before the buffer is drained.
RecvClosedEager ==
    /\ render_pc = "recv"
    /\ droppable_tx = "None"
    /\ Return("Ok")
    /\ UNCHANGED <<droppable_tx, last_send, attempts, cur, it, pending, calls, clears,
                   sampler_vars>>

\* rx.recv() fails: the buffer is empty and the sender is gone; main returns Ok(()).
RecvClosed ==
    /\ render_pc = "recv"
    /\ queue = <<>>
    /\ droppable_tx = "None"
    /\ Return("Ok")
    /\ UNCHANGED <<droppable_tx, last_send, attempts, cur, it, pending, calls, clears,
                   sampler_vars>>

\* bbox.try_color(color)?, then step, step_by and the first observations.next()
Color ==
    /\ render_pc = "color"
    /\ \E ok \in BOOLEAN :
         /\ calls' = Append(calls, Call("try_color", color_of(first_class(Record.classes)), ok))
         /\ IF ok
            THEN /\ Advance(step_by(step_of(Record.len)), Record.len, "move_to")
                 /\ UNCHANGED <<result, rx_alive, queue>>
            ELSE /\ Return("Err_bbox")
                 /\ UNCHANGED <<it, pending>>
    /\ UNCHANGED <<droppable_tx, last_send, attempts, cur, clears, sampler_vars>>

\* PathCall that ignores the call's failure and goes on.
PathCallIgnoreErr(pc, op) ==
    /\ render_pc = pc
    /\ LET p == ground_intersection(bounding_box(pending)) IN
       \E ok \in BOOLEAN :
         /\ calls' = Append(calls, Call(op, <<p.x, p.y>>, ok))
         /\ Advance(it, Record.len, "line_to")
         /\ UNCHANGED <<result, rx_alive, queue>>
    /\ UNCHANGED <<droppable_tx, last_send, attempts, cur, clears, sampler_vars>>

\* One path call on the pending observation, then the iterator's next().
PathCall(pc, op) ==
    /\ render_pc = pc
    /\ LET p == ground_intersection(bounding_box(pending)) IN
       \E ok \in BOOLEAN :
         /\ calls' = Append(calls, Call(op, <<p.x, p.y>>, ok))
         /\ IF ok
            THEN /\ Advance(it, Record.len, "line_to")
                 /\ UNCHANGED <<result, rx_alive, queue>>
            ELSE /\ Return("Err_bbox")
                 /\ UNCHANGED <<it, pending>>
    /\ UNCHANGED <<droppable_tx, last_send, attempts, cur, clears, sampler_vars>>

\* MoveTo that draws a line to the first point instead of moving the cursor.
MoveToAsLine == PathCall("move_to", "try_line_to")

\* bbox.try_move_to(x, y)?
MoveTo == PathCall("move_to", "try_move_to")

\* bbox.try_line_to(x, y)?
LineTo == PathCall("line_to", "try_line_to")

\* bbox.try_draw_path()?
DrawPath ==
    /\ render_pc = "draw_path"
    /\ \E ok \in BOOLEAN :
         /\ calls' = Append(calls, Call("try_draw_path", <<>>, ok))
         /\ IF ok
            THEN /\ render_pc' = "commit"
                 /\ UNCHANGED <<result, rx_alive, queue>>
            ELSE Return("Err_bbox")
    /\ UNCHANGED <<droppable_tx, last_send, attempts, cur, it, pending, clears, sampler_vars>>

\* Commit after which the loop clears the overlay again before the next recv.
CommitThenClear ==
    /\ render_pc = "commit"
    /\ \E ok \in BOOLEAN :
         /\ calls' = Append(calls, Call("try_commit", <<COMMIT_ARG>>, ok))
         /\ IF ok
            THEN /\ render_pc' = "clear"
                 /\ UNCHANGED <<result, rx_alive, queue>>
            ELSE Return("Err_bbox")
    /\ UNCHANGED <<droppable_tx, last_send, attempts, cur, it, pending, clears, sampler_vars>>

\* bbox.try_commit(0)?
Commit ==
    /\ render_pc = "commit"
    /\ \E ok \in BOOLEAN :
         /\ calls' = Append(calls, Call("try_commit", <<COMMIT_ARG>>, ok))
         /\ IF ok
            THEN /\ render_pc' = "recv"
                 /\ UNCHANGED <<result, rx_alive, queue>>
            ELSE Return("Err_bbox")
    /\ UNCHANGED <<droppable_tx, last_send, attempts, cur, it, pending, clears, sampler_vars>>

-----------------------------------------------------------------------------
(* The specification of the program.                                       *)

SamplerIdle ==
    /\ s_len = 0
    /\ s_it = step_by(1)
    /\ s_out = <<>>
    /\ s_done = FALSE
    /\ r_it = step_by(1)
    /\ r_out = <<>>
    /\ r_done = FALSE

ProgramInit ==
    /\ queue = <<>>
    /\ droppable_tx = "Some"
    /\ rx_alive = TRUE
    /\ last_send = "NotCalled"
    /\ attempts = 0
    /\ render_pc = "clear"
    /\ result = "running"
    /\ cur = NoMsg
    /\ it = step_by(1)
    /\ pending = -1
    /\ calls = <<>>
    /\ clears = 0

Init == ProgramInit /\ SamplerIdle

Next ==
    \/ Deliver
    \/ Clear
    \/ Recv
    \/ RecvClosed
    \/ Color
    \/ MoveTo
    \/ LineTo
    \/ DrawPath
    \/ Commit

Spec == Init /\ [][Next]_vars

\* The render loop is main's own thread: whenever it can take a step it does.
RenderStep ==
    \/ Clear
    \/ Recv
    \/ RecvClosed
    \/ Color
    \/ MoveTo
    \/ LineTo
    \/ DrawPath
    \/ Commit

FairSpec == Spec /\ WF_vars(RenderStep)

-----------------------------------------------------------------------------
(* The sampler on its own: every observation count 0..MaxLen, the iterator *)
(* driven to exhaustion.                                                   *)

SamplerInit ==
    /\ ProgramInit
    /\ s_len \in 0 .. MaxLen
    /\ s_it = step_by(step_of(s_len))
    /\ s_out = <<>>
    /\ s_done = FALSE
    /\ r_it = step_by(1)
    /\ r_out = <<>>
    /\ r_done = FALSE

\* One observations.next() of the path-building code; when the iterator is
\* exhausted its output becomes the input of a second pass of the sampler.
SamplerStep ==
    /\ ~s_done
    /\ LET n == step_by_next(s_it, s_len) IN
       /\ s_it' = n.iter
       /\ IF n.yield = -1
          THEN /\ s_done' = TRUE
               /\ s_out' = s_out
               /\ r_it' = step_by(step_of(Len(s_out)))
          ELSE /\ s_done' = FALSE
               /\ s_out' = Append(s_out, n.yield)
               /\ r_it' = r_it
    /\ UNCHANGED <<s_len, r_out, r_done, bridge_vars, render_vars>>

\* One next() of the second pass, which samples s_out with the same SENSITIVITY.
ResampleStep ==
    /\ s_done
    /\ ~r_done
    /\ LET n == step_by_next(r_it, Len(s_out)) IN
       /\ r_it' = n.iter
       /\ IF n.yield = -1
          THEN r_done' = TRUE /\ r_out' = r_out
          ELSE r_done' = FALSE /\ r_out' = Append(r_out, s_out[n.yield + 1])
    /\ UNCHANGED <<s_len, s_it, s_out, s_done, bridge_vars, render_vars>>

SamplerNext == SamplerStep \/ ResampleStep

SamplerSpec == SamplerInit /\ [][SamplerNext]_vars

-----------------------------------------------------------------------------
(* The drawing of one record on its own: the loop has cleared the overlay  *)
(* and has just received a finished record with any 1..MaxClasses          *)
(* classifications and 0..MaxSmallLen observations.                        *)

ClassSeqs(n) == UNION {[1 .. k -> ClassType] : k \in 1 .. n}

FinishedRecords ==
    {from_utf8(Text(ObjectDoc(Present(ts), "t1", n))) :
        ts \in ClassSeqs(MaxClasses), n \in 0 .. MaxSmallLen}

RenderInit ==
    /\ queue = <<>>
    /\ droppable_tx = "Some"
    /\ rx_alive = TRUE
    /\ last_send = "Ok"
    /\ attempts = 1
    /\ render_pc = "color"
    /\ result = "running"
    /\ cur \in FinishedRecords
    /\ it = step_by(1)
    /\ pending = -1
    /\ calls = <<>>
    /\ clears = 1
    /\ SamplerIdle

RenderNext ==
    \/ Color
    \/ MoveTo
    \/ LineTo
    \/ DrawPath
    \/ Commit

RenderSpec == RenderInit /\ [][RenderNext]_vars

-----------------------------------------------------------------------------
(* The ingestion bridge.                                                   *)

\* C1: a callback invocation that finds the queue full while the render loop
\* is alive discards only that message; the bridge stays active.
C1_FullKeepsBridgeActive ==
    last_send = "Full" => droppable_tx = "Some"

\* C2: the callback never blocks: whatever the queue, the bridge and the render
\* loop are doing, an invocation for any payload can run to completion at once,
\* and it makes at most one send attempt.
C2_CallbackNeverBlocks ==
    /\ attempts <= 1
    /\ \A message \in Payloads : ENABLED Callback(message)

\* An invocation has completed against a full queue while the loop was drawing.
C2_Witness ==
    /\ last_send = "Full"
    /\ attempts = 1
    /\ Len(queue) = CHANNEL_BOUND
    /\ render_pc = "line_to"

\* C9: the disabled bridge is a latch: it stays disabled, and a later callback
\* invocation makes no send attempt and leaves the queue as it is.
C9_DisabledIsLatch ==
    [][droppable_tx = "None" =>
         /\ droppable_tx' = "None"
         /\ Deliver => (queue' = queue /\ attempts' = 0 /\ last_send' = "NoAttempt")]_vars

\* A callback has run as a no-op on the disabled bridge while a message was
\* still buffered for the live render loop.
C9_Witness ==
    /\ droppable_tx = "None"
    /\ last_send = "NoAttempt"
    /\ rx_alive
    /\ queue # <<>>

-----------------------------------------------------------------------------
(* The render loop.                                                        *)

\* The JSON object a received message carries, when it is a text.
DocOf(msg) == msg.text

IsObject(msg) == msg.ok /\ DocOf(msg).kind = "object"

\* A text that does not parse as a Data record.
Unparsable(msg) ==
    /\ msg.ok
    /\ \/ DocOf(msg).kind = "malformed"
       \/ /\ DocOf(msg).kind = "object"
          /\ \E k \in DOMAIN DocOf(msg).classes.types :
               DocOf(msg).classes.types[k] \notin ClassType

Parsable(msg) == msg.ok /\ ~Unparsable(msg)

\* The loop is waiting in rx.recv() again, or has left it because the channel closed.
Continues == render_pc = "recv" /\ result = "running" /\ rx_alive

\* C3: a payload whose UTF-8 conversion failed is skipped: no overlay call, and
\* the loop does not terminate because of it.
C3_BadUtf8Skipped ==
    cur = from_utf8(BadBytes) => (calls = <<>> /\ result # "Err_utf8")

\* C4: a text that fails to parse causes no overlay call, and the step that
\* receives it leaves the loop awaiting the next message.
C4_UnparsableSkipped ==
    /\ [](Unparsable(cur) => calls = <<>>)
    /\ [][(Recv /\ Unparsable(Head(queue))) => Continues']_vars

\* The loop awaits the next message after an unparsable text.
C4_Witness ==
    /\ Unparsable(cur)
    /\ DocOf(cur).kind = "malformed"
    /\ Continues

\* The overlay calls a complete drawing of a record issues, in order.
SampledIndices(len) ==
    LET st == step_of(len) IN [k \in 1 .. ceil_div(len, st) |-> (k - 1) * st]

ExpectedCalls(doc) ==
    LET idx == SampledIndices(doc.nobs)
        pt(k) == ground_intersection(bounding_box(idx[k]))
    IN  <<Call("try_color", color_of(doc.classes.types[1]), TRUE)>>
        \o [k \in 1 .. Len(idx) |->
              Call(IF k = 1 THEN "try_move_to" ELSE "try_line_to", <<pt(k).x, pt(k).y>>, TRUE)]
        \o <<Call("try_draw_path", <<>>, TRUE), Call("try_commit", <<0>>, TRUE)>>

Eligible(msg) ==
    /\ Parsable(msg)
    /\ DocOf(msg).end_time # "null"
    /\ DocOf(msg).classes.types # <<>>

\* The drawing of the current record ran through its commit.
Drawn == Eligible(cur) /\ (render_pc = "recv" \/ result = "Ok")

\* C5: for a finished, classified record with at least one observation the
\* overlay calls are, in this order and with nothing between them: set-color of
\* the first class, move-to the first sampled point, line-to each further
\* sampled point, finalize-path, commit(0).
C5_CallOrder ==
    (Eligible(cur) /\ DocOf(cur).nobs >= 1) =>
        LET want == ExpectedCalls(DocOf(cur)) IN
        /\ Len(calls) <= Len(want)
        /\ \A k \in 1 .. Len(calls) :
             calls[k].op = want[k].op /\ calls[k].args = want[k].args
        /\ Drawn => calls = want

\* A decimated track (step 2) and a two-class record have been drawn completely.
C5_Witness ==
    /\ Drawn
    /\ DocOf(cur).nobs = SENSITIVITY + 1
    /\ Len(DocOf(cur).classes.types) = 2
    /\ Len(calls) = 99

\* C6: a record without end_time causes no overlay call, and the step that
\* receives it leaves the loop awaiting the next message.
C6_InProgressSkipped ==
    /\ []((Parsable(cur) /\ DocOf(cur).end_time = "null") => calls = <<>>)
    /\ [][(Recv /\ Parsable(Head(queue)) /\ DocOf(Head(queue)).end_time = "null")
            => Continues']_vars

\* The loop awaits the next message after an in-progress, classified track.
C6_Witness ==
    /\ Parsable(cur)
    /\ DocOf(cur).end_time = "null"
    /\ DocOf(cur).classes.types # <<>>
    /\ Continues

\* C7: a record with no classification, the field empty or missing, causes no
\* overlay call even when end_time is present, and the loop awaits the next one.
C7_UnclassifiedSkipped ==
    /\ []((Parsable(cur) /\ DocOf(cur).classes.types = <<>>) => calls = <<>>)
    /\ [][(Recv /\ Parsable(Head(queue)) /\ DocOf(Head(queue)).classes.types = <<>>)
            => Continues']_vars

\* The loop awaits the next message after a finished track whose "classes" is missing.
C7_Witness ==
    /\ Parsable(cur)
    /\ ~DocOf(cur).classes.present
    /\ DocOf(cur).end_time = "t1"
    /\ Continues

\* C8: a failed overlay call is the last one: main has returned the error, no
\* call follows for this record or another, and no message is received after it.
C8_OverlayFailureFatal ==
    /\ [](\A k \in 1 .. Len(calls) :
            ~calls[k].ok => (k = Len(calls) /\ result = "Err_bbox" /\ render_pc = "returned"))
    /\ [][result = "Err_bbox" =>
            (UNCHANGED <<calls, clears, cur, render_pc, result>> /\ queue' = <<>>)]_vars

\* A line-to failed in the middle of a path.
C8_Witness ==
    /\ result = "Err_bbox"
    /\ Len(calls) > 3
    /\ calls[Len(calls)].op = "try_line_to"
    /\ ~calls[Len(calls)].ok

\* C13: the overlay is cleared exactly once, before the first message is
\* received and before any other overlay call; no message causes another clear.
C13_ClearedOnceAtStartup ==
    /\ clears = (IF render_pc = "clear" THEN 0 ELSE 1)
    /\ render_pc = "clear" => (cur = NoMsg /\ calls = <<>>)

\* A record has been drawn completely and the overlay was cleared once.
C13_Witness ==
    /\ Drawn
    /\ render_pc = "recv"
    /\ Len(calls) >= 3
    /\ clears = 1

\* C14: the loop stops only because the channel closed after the producer was
\* permanently disabled, or because an overlay call failed.
C14_StopsOnlyOnCloseOrOverlay ==
    render_pc = "returned" =>
        \/ result = "Ok" /\ droppable_tx = "None"
        \/ result = "Err_bbox"

\* C15: a hand-off attempt on a full queue leaves the queued message as it is,
\* and a queued message stays as it is until the render loop receives exactly
\* it (or main returns on a failed overlay call).
C15_DropNewest ==
    /\ [][(Deliver /\ Len(queue) = CHANNEL_BOUND) => queue' = queue]_vars
    /\ [][queue # <<>> =>
            \/ queue' = queue
            \/ queue' = <<>> /\ cur' = Head(queue)
            \/ queue' = <<>> /\ result' = "Err_bbox"]_vars

\* After an attempt on the full queue the loop has received the queued message.
C15_Witness ==
    /\ last_send = "Full"
    /\ queue = <<>>
    /\ rx_alive
    /\ Parsable(cur)

OpsOf(cs) == [k \in 1 .. Len(cs) |-> cs[k].op]

Count(cs, op) == Cardinality({k \in 1 .. Len(cs) : cs[k].op = op})

IsPrefix(a, b) == Len(a) <= Len(b) /\ \A k \in 1 .. Len(a) : a[k] = b[k]

\* C16: an eligible record without observations has step 1 and is drawn as
\* set-color, finalize-path, commit(0) with no move-to and no line-to; one with
\* exactly one sampled point gets one move-to and no line-to.
C16_EmptyAndSinglePoint ==
    /\ (Eligible(cur) /\ DocOf(cur).nobs = 0) =>
          /\ IsPrefix(OpsOf(calls), <<"try_color", "try_draw_path", "try_commit">>)
          /\ (calls # <<>> /\ calls[1].ok) => it.step_minus_one + 1 = 1
          /\ Drawn => /\ OpsOf(calls) = <<"try_color", "try_draw_path", "try_commit">>
                      /\ calls[3].args = <<0>>
    /\ (Eligible(cur) /\ DocOf(cur).nobs = 1) =>
          /\ Count(calls, "try_line_to") = 0
          /\ Count(calls, "try_move_to") <= 1
          /\ Drawn => Count(calls, "try_move_to") = 1

\* A record without observations has been drawn with three calls.
C16_Witness ==
    /\ Drawn
    /\ DocOf(cur).nobs = 0
    /\ Len(calls) = 3

\* C19: a message accepted into the queue is not lost by the bridge: it leaves
\* the queue only by being received (or when main returns on a failed overlay
\* call), the loop ends normally only on an empty queue with the sender gone,
\* and under fair scheduling of the render loop the queue is eventually drained.
C19_QueuedIsReceived ==
    /\ [][(queue # <<>> /\ queue' # queue) =>
            \/ queue' = <<>> /\ cur' = Head(queue)
            \/ queue' = <<>> /\ result' = "Err_bbox"]_vars
    /\ [][(result = "running" /\ result' = "Ok") =>
            (queue = <<>> /\ droppable_tx = "None")]_vars
    /\ (queue # <<>>) ~> (queue = <<>>)

\* The producer dropped its sender on a full queue; the queued record was then
\* received and drawn, and only after that the loop ended normally.
C19_Witness ==
    /\ last_send = "Full"
    /\ result = "Ok"
    /\ Eligible(cur)
    /\ Len(calls) >= 3

-----------------------------------------------------------------------------
(* The sampler.                                                            *)

\* C10: the step is the least s >= 1 with s * 190 >= L, that is
\* max(1, ceil(L / 190)), and the sampler yields the indices 0, step, 2*step,
\* ... below L, each once and in order.
C10_SamplerIndices ==
    LET st == s_it.step_minus_one + 1 IN
    /\ st >= 1
    /\ st * SENSITIVITY >= s_len
    /\ st > 1 => (st - 1) * SENSITIVITY < s_len
    /\ \A k \in 1 .. Len(s_out) : s_out[k] = (k - 1) * st /\ s_out[k] < s_len
    /\ s_done => Len(s_out) * st >= s_len

\* A track of 381 observations has been sampled to the end with step 3.
C10_Witness ==
    /\ s_done
    /\ s_len = 2 * SENSITIVITY + 1
    /\ Len(s_out) = 127

\* C12 as stated: the second pass returns the first pass's output unchanged
\* only if L <= 190.
C12_UnchangedOnlyIfShort ==
    (r_done /\ r_out = s_out) => s_len <= SENSITIVITY

\* C12 as amended: the second pass returns the first pass's output unchanged
\* for every L, since that output is short enough for the second step to be 1.
C12_ResampleUnchanged ==
    r_done => (r_out = s_out /\ r_it.step_minus_one = 0)

\* The 127 points sampled from 381 observations came through a second pass unchanged.
C12_Witness ==
    /\ r_done
    /\ s_len = 2 * SENSITIVITY + 1
    /\ Len(r_out) = 127
    /\ r_out = s_out

\* The step the specification gives for L observations: max(1, ceil(L / 190)),
\* as the least s >= 1 with s * 190 >= L.
StatedStep(L) ==
    CHOOSE st \in 1 .. (L \div SENSITIVITY + 1) :
        st * SENSITIVITY >= L /\ (st > 1 => (st - 1) * SENSITIVITY < L)

\* C17: for L >= 1 the last observation, index L-1, is among the sampled
\* points exactly when (L-1) mod step = 0; otherwise the last sampled point is
\* an earlier observation.
C17_LastPointIffDivides ==
    (s_done /\ s_len >= 1) =>
        LET st == StatedStep(s_len)
            last == s_out[Len(s_out)]
        IN  /\ Len(s_out) >= 1
            /\ (\E k \in 1 .. Len(s_out) : s_out[k] = s_len - 1) <=> ((s_len - 1) % st = 0)
            /\ (s_len - 1) % st # 0 => last < s_len - 1

\* 192 observations, step 2: the path ends at index 190, short of the last, 191.
C17_Witness ==
    /\ s_done
    /\ s_len = SENSITIVITY + 2
    /\ s_out[Len(s_out)] = SENSITIVITY
    /\ \A k \in 1 .. Len(s_out) : s_out[k] # s_len - 1

\* C18: the number of sampled points never exceeds the sensitivity constant 190.
C18_AtMostSensitivityPoints ==
    Len(s_out) <= SENSITIVITY

\* 380 observations, step 2: exactly 190 points are sampled.
C18_Witness ==
    /\ s_done
    /\ s_len = 2 * SENSITIVITY
    /\ Len(s_out) = SENSITIVITY

-----------------------------------------------------------------------------
(* The colour of a record.                                                 *)

\* C11: the colour set for a record is a fixed function of the class type of
\* its first classification alone: Bike gold, Bus orange, Car blue, Human
\* green, Truck dark red, Vehicle gray, whatever classifications follow.
C11_ColorOfFirstClass ==
    calls # <<>> =>
        LET t == DocOf(cur).classes.types[1] IN
        /\ calls[1].op = "try_color"
        /\ calls[1].args = (CASE t = "Bike" -> gold
                              [] t = "Bus" -> orange
                              [] t = "Car" -> blue
                              [] t = "Human" -> green
                              [] t = "Truck" -> red
                              [] t = "Vehicle" -> gray)

\* A record classified Truck, then Bike, then Human has been drawn in dark red.
C11_Witness ==
    /\ DocOf(cur).classes.types = <<"Truck", "Bike", "Human">>
    /\ render_pc = "recv"
    /\ calls[1] = Call("try_color", <<139, 0, 0>>, TRUE)

====
